---- MODULE Spec2Model ----
(***************************************************************************)
(* Factory assets manager: the file-backed service (src/main.py) and the   *)
(* Supabase-backed service (src/app.py) with its embedded browser code.    *)
(*                                                                         *)
(* Strings are sequences of one-character strings, so that trimming and    *)
(* case folding are computed and not assumed.  Python's None is the        *)
(* one-element sequence None, which no real string equals.                 *)
(***************************************************************************)
EXTENDS Integers, Sequences, FiniteSets, TLC

VARIABLES
    prog,       \* which service is deployed: "main" (main.py) or "app" (app.py)
    file,       \* main.py: data['assets'] as stored in assets.json
    assets,     \* app.py: table assets, a set of rows
    nextId,     \* app.py: the next value of the auto-incrementing assets.id
    history,    \* app.py: table asset_history, in insertion order
    files,      \* app.py: table asset_files
    nextFileId, \* app.py: the next value of asset_files.id
    blobs,      \* app.py: paths held by the storage bucket asset-files
    clock,      \* [day, tick]: the current date and the time within the day
    inflight,   \* per request handler: the request it is serving and how far it got
    keepalive,  \* keepalive.py: where the loop is and what its last iteration did
    last        \* the last request and its response

vars == <<prog, file, assets, nextId, history, files, nextFileId, blobs, clock, inflight,
          keepalive, last>>
mainStore == <<file>>
appStore == <<assets, nextId, history, files, nextFileId, blobs>>

----------------------------------------------------------------------------
(* Bounds of the model *)
MaxAssets == 3      \* main.py: assets in the file
MaxHist == 2        \* history entries of one asset (main.py), rows of asset_history (app.py)
MaxIds == 2         \* app.py: asset rows ever inserted
MaxFiles == 2       \* app.py: asset_files rows ever inserted
MaxDay == 3         \* the last day the clock reaches
MaxTick == 1        \* the last instant of a day the clock reaches

----------------------------------------------------------------------------
(* Strings *)
None == <<"None">>
Empty == <<>>
\* A key that a JSON body does not carry.
Absent == <<"Absent">>

\* Python truthiness of payload.get(k): a missing key, None and "" are falsy.
Truthy(v) == v /= None /\ v /= Empty /\ v /= Absent

LowerChar(c) ==
    CASE c = "A" -> "a"
      [] c = "C" -> "c"
      [] c = "S" -> "s"
      [] OTHER -> c

\* String.prototype.toLowerCase
Lower(s) == [i \in 1..Len(s) |-> LowerChar(s[i])]

RECURSIVE TrimLeft(_)
TrimLeft(s) == IF s /= <<>> /\ Head(s) = " " THEN TrimLeft(Tail(s)) ELSE s

RECURSIVE TrimRight(_)
TrimRight(s) ==
    IF s /= <<>> /\ s[Len(s)] = " " THEN TrimRight(SubSeq(s, 1, Len(s) - 1)) ELSE s

\* str.strip() / String.prototype.trim
Trim(s) == TrimRight(TrimLeft(s))

\* Keep the elements of a sequence that satisfy Test, in order.
RECURSIVE SelectIdx(_, _, _)
SelectIdx(s, Test(_), i) ==
    IF i > Len(s) THEN <<>>
    ELSE (IF Test(s[i]) THEN <<s[i]>> ELSE <<>>) \o SelectIdx(s, Test, i + 1)

Filter(s, Test(_)) == SelectIdx(s, Test, 1)

Range(s) == {s[i] : i \in 1..Len(s)}

----------------------------------------------------------------------------
(* The initial state: no data file, empty tables *)
Day0 == [day |-> 2, tick |-> 0]

NoRequest == [op |-> "none", arg |-> Empty, status |-> 0, out |-> <<>>, at |-> Day0]

\* The request handlers that may run at the same time, and a handler at rest.
Workers == {"w1", "w2"}
Idle == [pc |-> "idle"]

\* keepalive.py before the first iteration of its loop; now is in minutes of
\* the day, Vietnam time, and wait in minutes
NotStarted == [pc |-> "start", now |-> 0, sent |-> FALSE, failed |-> FALSE, wait |-> 0]

Init ==
    /\ prog \in {"main", "app"}
    /\ file = <<>>
    /\ assets = {}
    /\ nextId = 1
    /\ history = <<>>
    /\ files = <<>>
    /\ nextFileId = 1
    /\ blobs = {}
    /\ clock = Day0
    /\ inflight = [w \in Workers |-> Idle]
    /\ keepalive = NotStarted
    /\ last = NoRequest

\* A response, with the request it answers and the instant it was made at.
Reply(op, arg, status, out) ==
    [op |-> op, arg |-> arg, status |-> status, out |-> out, at |-> clock]

----------------------------------------------------------------------------
(* main.py: the file-backed service.  A payload p carries code, name and  *)
(* serial; name stands for the fields brand, location, status, import_date *)
(* and warranty_end, which main.py requires and stores exactly like name.  *)

\* required = [...]; missing = [k for k in required if not payload.get(k)]
MainMissing(p, required) == Filter(required, LAMBDA k : ~Truthy(p[k]))

MainFind(data, code) == {i \in 1..Len(data) : data[i].code = code}

\* next((a for a in data['assets'] if a['code'] == code), None)
MainFirst(data, code) == CHOOSE i \in MainFind(data, code) : \A j \in MainFind(data, code) : i <= j

\* An allocator that counts from zero.
MainNextIndexZeroBased(data) == Len(data)

\* idx = len(data['assets']) + 1
MainNextIndex(data) == Len(data) + 1

\* A delete that forgets to reindex the survivors.
MainReindexSkipped(list) == list

\* A delete that closes the gap by moving every index above 1 down by one.
MainReindexShifted(list) ==
    [i \in 1..Len(list) |-> [list[i] EXCEPT !.index = IF @ > 1 THEN @ - 1 ELSE @]]

\* for i,a in enumerate(new_assets, start=1): a['index'] = i
MainReindex(list) == [i \in 1..Len(list) |-> [list[i] EXCEPT !.index = i]]

\* seq = len(asset.get('history', [])) + 1
MainNextSeq(asset) == Len(asset.history) + 1

MainFrame == UNCHANGED <<prog, keepalive, appStore, clock, inflight>>

MainGetAssets ==
    /\ prog = "main"
    /\ last' = Reply("list", Empty, 200, file)
    /\ UNCHANGED file
    /\ MainFrame

MainAddAsset(p) ==
    /\ prog = "main"
    /\ LET missing == MainMissing(p, <<"code", "name", "serial">>) IN
       IF missing /= <<>> THEN
            /\ last' = Reply("add", p.code, 400, missing)
            /\ UNCHANGED file
       ELSE IF \E i \in 1..Len(file) : file[i].code = p.code THEN
            /\ last' = Reply("add", p.code, 400, <<"duplicate code">>)
            /\ UNCHANGED file
       ELSE
            /\ Len(file) < MaxAssets
            /\ LET new == [index |-> MainNextIndex(file), code |-> p.code,
                           name |-> p.name, serial |-> p.serial, history |-> <<>>] IN
               /\ file' = Append(file, new)
               /\ last' = Reply("add", p.code, 201, <<new>>)
    /\ MainFrame

\* The asset api_get_asset of main.py answers with, if any.
MainGetMatches(data, code) ==
    IF MainFind(data, code) = {} THEN {} ELSE {data[MainFirst(data, code)]}

MainGetAsset(code) ==
    /\ prog = "main"
    /\ IF MainGetMatches(file, code) = {} THEN last' = Reply("get", code, 404, <<>>)
       ELSE last' = Reply("get", code, 200, <<CHOOSE a \in MainGetMatches(file, code) : TRUE>>)
    /\ UNCHANGED file
    /\ MainFrame

\* An update that rebuilds the asset from the payload, history included.
MainUpdateAssetReplacing(code, p) ==
    /\ prog = "main"
    /\ LET missing == MainMissing(p, <<"name", "serial">>) IN
       IF missing /= <<>> THEN
            /\ last' = Reply("update", code, 400, missing)
            /\ UNCHANGED file
       ELSE IF MainFind(file, code) = {} THEN
            /\ last' = Reply("update", code, 404, <<>>)
            /\ UNCHANGED file
       ELSE LET i == MainFirst(file, code)
                upd == [file[i] EXCEPT !.name = p.name, !.serial = p.serial, !.history = <<>>] IN
            /\ file' = [file EXCEPT ![i] = upd]
            /\ last' = Reply("update", code, 200, <<upd>>)
    /\ MainFrame

MainUpdateAsset(code, p) ==
    /\ prog = "main"
    /\ LET missing == MainMissing(p, <<"name", "serial">>) IN
       IF missing /= <<>> THEN
            /\ last' = Reply("update", code, 400, missing)
            /\ UNCHANGED file
       ELSE IF MainFind(file, code) = {} THEN
            /\ last' = Reply("update", code, 404, <<>>)
            /\ UNCHANGED file
       ELSE LET i == MainFirst(file, code)
                upd == [file[i] EXCEPT !.name = p.name, !.serial = p.serial] IN
            /\ file' = [file EXCEPT ![i] = upd]
            /\ last' = Reply("update", code, 200, <<upd>>)
    /\ MainFrame

MainDeleteAsset(code) ==
    /\ prog = "main"
    /\ LET new_assets == Filter(file, LAMBDA a : a.code /= code) IN
       IF Len(new_assets) = Len(file) THEN
            /\ last' = Reply("delete", code, 404, <<>>)
            /\ UNCHANGED file
       ELSE
            /\ file' = MainReindex(new_assets)
            /\ last' = Reply("delete", code, 200, <<>>)
    /\ MainFrame

MainGetHistory(code) ==
    /\ prog = "main"
    /\ IF MainFind(file, code) = {} THEN last' = Reply("get_history", code, 404, <<>>)
       ELSE last' = Reply("get_history", code, 200, file[MainFirst(file, code)].history)
    /\ UNCHANGED file
    /\ MainFrame

\* A history payload h carries fault; sent_date and returned_date are
\* required and stored exactly like fault.
MainAddHistory(code, h) ==
    /\ prog = "main"
    /\ LET missing == MainMissing(h, <<"fault">>) IN
       IF missing /= <<>> THEN
            /\ last' = Reply("add_history", code, 400, missing)
            /\ UNCHANGED file
       ELSE IF MainFind(file, code) = {} THEN
            /\ last' = Reply("add_history", code, 404, <<>>)
            /\ UNCHANGED file
       ELSE LET i == MainFirst(file, code)
                entry == [seq |-> MainNextSeq(file[i]), fault |-> h.fault] IN
            /\ Len(file[i].history) < MaxHist
            /\ file' = [file EXCEPT ![i].history = Append(@, entry)]
            /\ last' = Reply("add_history", code, 201, <<entry>>)
    /\ MainFrame


----------------------------------------------------------------------------
(* app.py: the Supabase-backed service.  An asset row carries id, code,    *)
(* clc, serial, name, status, warranty_end and index_num; name stands for  *)
(* brand, model, location, description and import_date, which app.py       *)
(* requires or stores exactly like name.  index_num is the stored STT      *)
(* column of the module docstring, 0 standing for NULL.                    *)

AppFrame == UNCHANGED <<prog, keepalive, file, clock, inflight>>

\* A column of an inserted row whose key the payload lacks is NULL.
Col(v) == IF v = Absent THEN None ELSE v

\* normalize_dates: a date field that is "" becomes None
NormDate(v) == IF v = Empty THEN None ELSE v

\* .order("id", desc=False)
RECURSIVE OrderById(_)
OrderById(rows) ==
    IF rows = {} THEN <<>>
    ELSE LET r == CHOOSE x \in rows : \A y \in rows : x.id <= y.id
         IN <<r>> \o OrderById(rows \ {r})

\* A listing that serves the stored index_num.
WithStoredIndex(a, i) ==
    [f \in DOMAIN a \cup {"index"} |-> IF f = "index" THEN a.index_num ELSE a[f]]

\* item = transform_asset_for_frontend(a); item["index"] = i
WithIndex(a, i) == [f \in DOMAIN a \cup {"index"} |-> IF f = "index" THEN i ELSE a[f]]

\* for i, a in enumerate(assets, start=1): ... out.append(item)
AppListing(rows) == LET o == OrderById(rows) IN [i \in 1..Len(o) |-> WithIndex(o[i], i)]

\* A listing that writes the index it computes to the stored index_num.
AppListAssetsReindexing ==
    /\ prog = "app"
    /\ last' = Reply("list", Empty, 200, AppListing(assets))
    /\ assets' = {[f \in DOMAIN r |->
                      IF f = "index_num"
                      THEN Cardinality({x \in assets : x.id <= r.id}) ELSE r[f]] : r \in assets}
    /\ UNCHANGED <<nextId, history, files, nextFileId, blobs>>
    /\ AppFrame

AppListAssets ==
    /\ prog = "app"
    /\ last' = Reply("list", Empty, 200, AppListing(assets))
    /\ UNCHANGED appStore
    /\ AppFrame

\* The duplicate checks of api_add_asset: the error of the first one that fires.
AppAddDuplicate(rows, data) ==
    IF Truthy(data.code) /\ \E r \in rows : r.code = data.code THEN <<"duplicate code">>
    ELSE IF Truthy(data.serial) /\ \E r \in rows : r.serial = data.serial
         THEN <<"duplicate serial">>
    ELSE <<>>

AppAddAsset(data) ==
    /\ prog = "app"
    /\ LET missing == Filter(<<"name", "serial", "status">>, LAMBDA k : ~Truthy(data[k])) IN
       IF missing /= <<>> THEN
            /\ last' = Reply("add", data.serial, 400, missing)
            /\ UNCHANGED appStore
       ELSE IF AppAddDuplicate(assets, data) /= <<>> THEN
            /\ last' = Reply("add", data.serial, 400, AppAddDuplicate(assets, data))
            /\ UNCHANGED appStore
       ELSE
            /\ nextId <= MaxIds
            /\ LET created == [id |-> nextId, code |-> Col(data.code), clc |-> Col(data.clc),
                               serial |-> data.serial, name |-> data.name,
                               status |-> data.status,
                               warranty_end |-> Col(NormDate(data.warranty_end)),
                               index_num |-> data.index_num] IN
               /\ assets' = assets \cup {created}
               /\ nextId' = nextId + 1
               /\ last' = Reply("add", data.serial, 201, <<created>>)
            /\ UNCHANGED <<history, files, nextFileId, blobs>>
    /\ AppFrame

\* select * where serial = <serial>: the rows api_get_asset may answer with.
\* .limit(1) names no order, so any matching row may come back.
AppGetMatches(rows, serial) == {r \in rows : r.serial = serial}

AppGetAsset(serial) ==
    /\ prog = "app"
    /\ LET found == AppGetMatches(assets, serial) IN
       IF found = {} THEN last' = Reply("get", serial, 404, <<>>)
       ELSE \E r \in found : last' = Reply("get", serial, 200, <<r>>)
    /\ UNCHANGED appStore
    /\ AppFrame

\* allowed_fields, name standing for brand, model, location, import_date, description
AllowedFields == {"clc", "code", "name", "serial", "status", "warranty_end"}

\* update_data = {k: v for k, v in body.items() if k in allowed_fields}
UpdateData(body) == {k \in DOMAIN body \cap AllowedFields : body[k] /= Absent}

\* An update that writes the key and the stored index of the body as well.
ApplyUpdateWhole(r, body) ==
    [f \in DOMAIN r |->
        IF f \in {"id", "index_num"} THEN body[f]
        ELSE IF f \in DOMAIN body /\ body[f] /= Absent THEN body[f] ELSE r[f]]

\* .update(update_data) on one row
ApplyUpdate(r, body) == [f \in DOMAIN r |-> IF f \in UpdateData(body) THEN body[f] ELSE r[f]]

\* The duplicate check of api_update_asset, made only when the body carries a code.
AppUpdateDuplicate(rows, old, body) ==
    /\ "code" \in UpdateData(body)
    /\ Trim(body.code) /= (IF Truthy(old.code) THEN old.code ELSE Empty)
    /\ \E r \in rows : r.code = Trim(body.code)

\* .single() answers with the row only when exactly one row matches; with none
\* the client raises (500) or answers without data (404), by its version.
AppUpdateAsset(serial, body0) ==
    /\ prog = "app"
    /\ LET body == [body0 EXCEPT !.warranty_end = NormDate(@)]
           found == {r \in assets : r.serial = serial} IN
       IF found = {} THEN
            /\ \E st \in {404, 500} : last' = Reply("update", serial, st, <<>>)
            /\ UNCHANGED appStore
       ELSE IF Cardinality(found) > 1 THEN
            /\ last' = Reply("update", serial, 500, <<>>)
            /\ UNCHANGED appStore
       ELSE IF UpdateData(body) = {} THEN
            /\ last' = Reply("update", serial, 400, <<"no valid fields">>)
            /\ UNCHANGED appStore
       ELSE IF "code" \in UpdateData(body) /\ body.code = None THEN
            \* update_data["code"].strip() on None raises
            /\ last' = Reply("update", serial, 500, <<>>)
            /\ UNCHANGED appStore
       ELSE LET old == CHOOSE r \in found : TRUE IN
            IF AppUpdateDuplicate(assets, old, body) THEN
                /\ last' = Reply("update", serial, 400, <<"duplicate code">>)
                /\ UNCHANGED appStore
            ELSE
                /\ assets' = {IF r.serial = serial THEN ApplyUpdate(r, body) ELSE r : r \in assets}
                /\ last' = Reply("update", serial, 200, <<ApplyUpdate(old, body)>>)
                /\ UNCHANGED <<nextId, history, files, nextFileId, blobs>>
    /\ AppFrame

\* What api_delete_asset_by_serial removes from each table and from storage.
DeleteFiles(rows, serial) == Filter(rows, LAMBDA f : f.serial /= serial)
DeleteBlobs(paths, rows, serial) == paths \ {rows[i].file_path : i \in {j \in 1..Len(rows) : rows[j].serial = serial}}
DeleteAssets(rows, serial) == {r \in rows : r.serial /= serial}

AppDeleteAsset(serial) ==
    /\ prog = "app"
    /\ IF ~Truthy(serial) THEN
            /\ last' = Reply("delete", serial, 400, <<"missing serial">>)
            /\ UNCHANGED appStore
       ELSE
            /\ blobs' = DeleteBlobs(blobs, files, serial)
            /\ files' = DeleteFiles(files, serial)
            /\ assets' = DeleteAssets(assets, serial)
            /\ last' = Reply("delete", serial, 200, <<>>)
            /\ UNCHANGED <<nextId, history, nextFileId>>
    /\ AppFrame

(* app.py: history.  A history row carries serial, type, seq, fault,       *)
(* fault_date, calib_date and expire_date; sent_date and return_date are   *)
(* optional and stored exactly like fault_date.                            *)

SetMax(S) == CHOOSE x \in S : \A y \in S : y <= x

\* A type check that lets a third category through.
HistTypesOpen == {"fault", "calib", "audit"}

\* if history_type not in ("fault", "calib")
HistTypes == {"fault", "calib"}

\* last = select seq where serial order by seq desc limit 1;
\* seq = (last.data[0]["seq"] + 1) if last.data else 1
HistNextSeq(rows, serial) ==
    LET mine == {rows[i].seq : i \in {j \in 1..Len(rows) : rows[j].serial = serial}}
    IN IF mine = {} THEN 1 ELSE SetMax(mine) + 1

\* The entry api_add_history builds from the body, by type.
HistEntry(body, seq) ==
    IF body.type = "fault"
    THEN [serial |-> body.serial, type |-> body.type, seq |-> seq,
          fault |-> Col(body.fault), fault_date |-> Col(NormDate(body.fault_date)),
          calib_date |-> None, expire_date |-> None]
    ELSE [serial |-> body.serial, type |-> body.type, seq |-> seq,
          fault |-> None, fault_date |-> None,
          calib_date |-> Col(NormDate(body.calib_date)),
          expire_date |-> Col(NormDate(body.expire_date))]

\* A check that looks at the first required field only.
HistMissingFirst(entry) ==
    IF entry.type = "fault"
    THEN Filter(<<"fault">>, LAMBDA k : ~Truthy(entry[k]))
    ELSE Filter(<<"calib_date">>, LAMBDA k : ~Truthy(entry[k]))

\* missing = [k for k in (...) if not entry.get(k)]
HistMissing(entry) ==
    IF entry.type = "fault"
    THEN Filter(<<"fault", "fault_date">>, LAMBDA k : ~Truthy(entry[k]))
    ELSE Filter(<<"calib_date", "expire_date">>, LAMBDA k : ~Truthy(entry[k]))

\* An add-history that also rewrites the assets table when it stores an entry:
\* NewAssets gives the table from the old one and the stored entry.
AppAddHistoryThen(body, NewAssets(_, _)) ==
    /\ prog = "app"
    /\ IF ~Truthy(body.serial) THEN
            /\ last' = Reply("add_history", body.serial, 400, <<"missing serial">>)
            /\ UNCHANGED appStore
       ELSE IF body.type \notin {"fault", "calib"} THEN
            /\ last' = Reply("add_history", body.serial, 400, <<"invalid type">>)
            /\ UNCHANGED appStore
       ELSE IF ~\E r \in assets : r.serial = body.serial THEN
            /\ last' = Reply("add_history", body.serial, 404, <<>>)
            /\ UNCHANGED appStore
       ELSE LET entry == HistEntry(body, HistNextSeq(history, body.serial)) IN
            IF HistMissing(entry) /= <<>> THEN
                /\ last' = Reply("add_history", body.serial, 400, HistMissing(entry))
                /\ UNCHANGED appStore
            ELSE
                /\ Len(history) < MaxHist
                /\ history' = Append(history, entry)
                /\ assets' = NewAssets(assets, entry)
                /\ last' = Reply("add_history", body.serial, 201, <<entry>>)
                /\ UNCHANGED <<nextId, files, nextFileId, blobs>>
    /\ AppFrame

\* An add-history whose calibration entries put the asset back in service.
AppAddHistoryReverting(body) ==
    AppAddHistoryThen(body, LAMBDA rows, e :
        {IF r.serial = e.serial /\ e.type = "calib"
         THEN [r EXCEPT !.status = <<"O", "K">>] ELSE r : r \in rows})

\* An add-history whose every entry, fault or calibration, marks the asset.
AppAddHistoryMarking(body) ==
    AppAddHistoryThen(body, LAMBDA rows, e :
        {IF r.serial = e.serial
         THEN [r EXCEPT !.status = <<"C", "a", "l", "i", "b">>] ELSE r : r \in rows})

AppAddHistory(body) ==
    /\ prog = "app"
    /\ IF ~Truthy(body.serial) THEN
            /\ last' = Reply("add_history", body.serial, 400, <<"missing serial">>)
            /\ UNCHANGED appStore
       ELSE IF body.type \notin HistTypes THEN
            /\ last' = Reply("add_history", body.serial, 400, <<"invalid type">>)
            /\ UNCHANGED appStore
       ELSE IF ~\E r \in assets : r.serial = body.serial THEN
            /\ last' = Reply("add_history", body.serial, 404, <<>>)
            /\ UNCHANGED appStore
       ELSE LET entry == HistEntry(body, HistNextSeq(history, body.serial)) IN
            IF HistMissing(entry) /= <<>> THEN
                /\ last' = Reply("add_history", body.serial, 400, HistMissing(entry))
                /\ UNCHANGED appStore
            ELSE
                /\ Len(history) < MaxHist
                /\ history' = Append(history, entry)
                /\ last' = Reply("add_history", body.serial, 201, <<entry>>)
                /\ UNCHANGED <<assets, nextId, files, nextFileId, blobs>>
    /\ AppFrame

\* .order("seq", desc=False): ascending seq, equal seq in insertion order
RECURSIVE OrderBySeq(_)
OrderBySeq(rows) ==
    IF rows = <<>> THEN <<>>
    ELSE LET i == CHOOSE k \in 1..Len(rows) :
                    /\ \A j \in 1..Len(rows) : rows[k].seq <= rows[j].seq
                    /\ \A j \in 1..(k - 1) : rows[j].seq /= rows[k].seq
         IN <<rows[i]>> \o OrderBySeq(SubSeq(rows, 1, i - 1) \o SubSeq(rows, i + 1, Len(rows)))

\* The select without .eq("serial", serial).
AppHistoryOfAll(rows, serial) == OrderBySeq(rows)

AppHistoryOf(rows, serial) == OrderBySeq(Filter(rows, LAMBDA h : h.serial = serial))

AppGetHistory(serial) ==
    /\ prog = "app"
    /\ last' = Reply("get_history", serial, 200, AppHistoryOf(history, serial))
    /\ UNCHANGED appStore
    /\ AppFrame

(* app.py: attached files.  An upload is a sequence of [filename, size],   *)
(* size in MB; the empty sequence is a request without the "files" part.   *)
MAX_FILE_SIZE == 5

DigitChars == <<"1", "2", "3", "4", "5", "6", "7", "8", "9">>

\* The loop of api_upload_asset_files from upload i on; st carries the tables,
\* the storage, the uploaded list and the status the loop has ended with (0: none).
RECURSIVE UploadLoop(_, _, _, _)
UploadLoop(serial, uploads, i, st) ==
    IF i > Len(uploads) \/ st.status /= 0 THEN st
    ELSE LET f == uploads[i] IN
         IF f.filename = Empty THEN UploadLoop(serial, uploads, i + 1, st)
         ELSE IF f.size > MAX_FILE_SIZE THEN [st EXCEPT !.status = 400]
         ELSE LET dup == \E k \in 1..Len(st.files) :
                            st.files[k].serial = serial /\ st.files[k].file_name = f.filename
                  filename == IF dup THEN f.filename \o <<"_", DigitChars[st.nextFileId]>>
                              ELSE f.filename
                  path == serial \o <<"/">> \o filename
              IN IF path \in st.blobs THEN [st EXCEPT !.status = 500]
                 ELSE UploadLoop(serial, uploads, i + 1,
                        [st EXCEPT !.blobs = @ \cup {path},
                                   !.files = Append(@, [id |-> st.nextFileId, serial |-> serial,
                                                        file_name |-> filename, file_path |-> path]),
                                   !.nextFileId = @ + 1,
                                   !.uploaded = Append(@, filename)])

AppUploadFiles(serial, uploads) ==
    /\ prog = "app"
    /\ IF uploads = <<>> THEN
            /\ last' = Reply("upload", serial, 400, <<"no files">>)
            /\ UNCHANGED appStore
       ELSE IF ~\E r \in assets : r.serial = serial THEN
            /\ last' = Reply("upload", serial, 404, <<>>)
            /\ UNCHANGED appStore
       ELSE
            /\ nextFileId + Len(uploads) - 1 <= MaxFiles
            /\ LET st == UploadLoop(serial, uploads, 1,
                           [files |-> files, blobs |-> blobs, nextFileId |-> nextFileId,
                            uploaded |-> <<>>, status |-> 0]) IN
               /\ files' = st.files
               /\ blobs' = st.blobs
               /\ nextFileId' = st.nextFileId
               /\ last' = Reply("upload", serial,
                                IF st.status /= 0 THEN st.status
                                ELSE IF st.uploaded = <<>> THEN 400 ELSE 201,
                                st.uploaded)
            /\ UNCHANGED <<assets, nextId, history>>
    /\ AppFrame

AppListFiles(serial) ==
    /\ prog = "app"
    /\ last' = Reply("list_files", serial, 200, Filter(files, LAMBDA f : f.serial = serial))
    /\ UNCHANGED appStore
    /\ AppFrame

(* Failing store calls.  A request to Supabase that fails raises in the     *)
(* client and changes nothing in the store; every handler below runs in a  *)
(* try block whose except clause answers 500.  call names the request that *)
(* fails; the handler must get as far as making it.                        *)

\* api_list_assets when its select fails
AppListAssetsFails ==
    /\ prog = "app"
    /\ last' = Reply("list", Empty, 500, <<>>)
    /\ UNCHANGED appStore
    /\ AppFrame

\* Whether api_add_asset, given the body, gets as far as the call.
AddReaches(rows, data, call) ==
    /\ \A k \in {"name", "serial", "status"} : Truthy(data[k])
    /\ CASE call = "select_code" -> Truthy(data.code)
         [] call = "select_serial" -> ~(Truthy(data.code) /\ \E r \in rows : r.code = data.code)
         [] call = "insert" -> AppAddDuplicate(rows, data) = <<>>

\* An add whose failed call is made again and succeeds.
AppAddAssetRetried(data, call) ==
    /\ AddReaches(assets, data, call)
    /\ AppAddAsset(data)

\* api_add_asset when one of its calls fails
AppAddAssetFails(data, call) ==
    /\ prog = "app"
    /\ AddReaches(assets, data, call)
    /\ last' = Reply("add", data.serial, 500, <<>>)
    /\ UNCHANGED appStore
    /\ AppFrame

\* Whether api_update_asset gets as far as the call.
UpdateReaches(rows, serial, body, call) ==
    LET found == {r \in rows : r.serial = serial} IN
    CASE call = "select" -> TRUE
      [] call = "select_code" ->
            /\ Cardinality(found) = 1 /\ "code" \in UpdateData(body) /\ body.code /= None
            /\ Trim(body.code) /=
                  (LET old == CHOOSE r \in found : TRUE
                   IN IF Truthy(old.code) THEN old.code ELSE Empty)
      [] call = "update" ->
            /\ Cardinality(found) = 1 /\ UpdateData(body) /= {}
            /\ ~("code" \in UpdateData(body) /\ body.code = None)
            /\ ~AppUpdateDuplicate(rows, CHOOSE r \in found : TRUE, body)

\* api_update_asset when one of its calls fails
AppUpdateAssetFails(serial, body0, call) ==
    /\ prog = "app"
    /\ UpdateReaches(assets, serial, [body0 EXCEPT !.warranty_end = NormDate(@)], call)
    /\ last' = Reply("update", serial, 500, <<>>)
    /\ UNCHANGED appStore
    /\ AppFrame

\* Whether api_add_history gets as far as the call.
HistReaches(rows, hist, body, call) ==
    /\ Truthy(body.serial) /\ body.type \in HistTypes
    /\ CASE call = "select_asset" -> TRUE
         [] call = "select_seq" -> \E r \in rows : r.serial = body.serial
         [] call = "insert" ->
               /\ \E r \in rows : r.serial = body.serial
               /\ HistMissing(HistEntry(body, HistNextSeq(hist, body.serial))) = <<>>

\* api_add_history when one of its calls fails
AppAddHistoryFails(body, call) ==
    /\ prog = "app"
    /\ HistReaches(assets, history, body, call)
    /\ last' = Reply("add_history", body.serial, 500, <<>>)
    /\ UNCHANGED appStore
    /\ AppFrame

\* api_delete_asset_by_serial when one of its calls fails: the calls before
\* it have been made.  storage.remove is called only when the asset has files.
AppDeleteAssetFails(serial, call) ==
    /\ prog = "app"
    /\ Truthy(serial)
    /\ call = "remove" => \E k \in 1..Len(files) : files[k].serial = serial
    /\ blobs' = IF call \in {"delete_files", "delete_asset"}
                THEN DeleteBlobs(blobs, files, serial) ELSE blobs
    /\ files' = IF call = "delete_asset" THEN DeleteFiles(files, serial) ELSE files
    /\ last' = Reply("delete", serial, 500, <<>>)
    /\ UNCHANGED <<assets, nextId, history, nextFileId>>
    /\ AppFrame

(* Concurrent requests.  A handler runs from one store call to the next in  *)
(* one step; what it has read it keeps in inflight until it answers.       *)
(* main.py reads the file with load_data and writes it with save_data;     *)
(* app.py makes one request to Supabase per select and per insert.         *)

Serving(w, rec) == inflight' = [inflight EXCEPT ![w] = rec]
Answer(w, reply) == inflight' = [inflight EXCEPT ![w] = Idle] /\ last' = reply

\* main.py api_add_history up to save_data: the checks, load_data and the
\* entry appended to the loaded copy.
MainHistBegin(w, code, h) ==
    /\ prog = "main" /\ inflight[w] = Idle
    /\ LET missing == MainMissing(h, <<"fault">>) IN
       IF missing /= <<>> THEN
            Answer(w, Reply("add_history", code, 400, missing))
       ELSE IF MainFind(file, code) = {} THEN
            Answer(w, Reply("add_history", code, 404, <<>>))
       ELSE LET i == MainFirst(file, code)
                entry == [seq |-> MainNextSeq(file[i]), fault |-> h.fault] IN
            /\ Len(file[i].history) < MaxHist
            /\ Serving(w, [pc |-> "main_save",
                           data |-> [file EXCEPT ![i].history = Append(@, entry)],
                           reply |-> Reply("add_history", code, 201, <<entry>>)])
            /\ UNCHANGED last
    /\ UNCHANGED <<prog, keepalive, file, appStore, clock>>

\* The asset api_add_asset of main.py builds for a payload.
MainNew(p, idx) ==
    [index |-> idx, code |-> p.code, name |-> p.name, serial |-> p.serial, history |-> <<>>]

\* An add that counts the additions still to be saved before it takes an index.
MainAddBeginReserving(w, p) ==
    /\ prog = "main" /\ inflight[w] = Idle
    /\ LET missing == MainMissing(p, <<"code", "name", "serial">>) IN
       IF missing /= <<>> THEN
            Answer(w, Reply("add", p.code, 400, missing))
       ELSE IF \E i \in 1..Len(file) : file[i].code = p.code THEN
            Answer(w, Reply("add", p.code, 400, <<"duplicate code">>))
       ELSE LET pending == {v \in Workers : inflight[v].pc = "main_save"}
                new == MainNew(p, MainNextIndex(file) + Cardinality(pending)) IN
            /\ Len(file) < MaxAssets
            /\ Serving(w, [pc |-> "main_save", data |-> Append(file, new),
                           reply |-> Reply("add", p.code, 201, <<new>>)])
            /\ UNCHANGED last
    /\ UNCHANGED <<prog, keepalive, file, appStore, clock>>

\* main.py api_add_asset up to save_data: the required fields, load_data, the
\* check of the code and the new asset appended to the loaded copy.
MainAddBegin(w, p) ==
    /\ prog = "main" /\ inflight[w] = Idle
    /\ LET missing == MainMissing(p, <<"code", "name", "serial">>) IN
       IF missing /= <<>> THEN
            Answer(w, Reply("add", p.code, 400, missing))
       ELSE IF \E i \in 1..Len(file) : file[i].code = p.code THEN
            Answer(w, Reply("add", p.code, 400, <<"duplicate code">>))
       ELSE LET new == MainNew(p, MainNextIndex(file)) IN
            /\ Len(file) < MaxAssets
            /\ Serving(w, [pc |-> "main_save", data |-> Append(file, new),
                           reply |-> Reply("add", p.code, 201, <<new>>)])
            /\ UNCHANGED last
    /\ UNCHANGED <<prog, keepalive, file, appStore, clock>>

\* main.py api_update_asset up to save_data
MainUpdateBegin(w, code, p) ==
    /\ prog = "main" /\ inflight[w] = Idle
    /\ LET missing == MainMissing(p, <<"name", "serial">>) IN
       IF missing /= <<>> THEN
            Answer(w, Reply("update", code, 400, missing))
       ELSE IF MainFind(file, code) = {} THEN
            Answer(w, Reply("update", code, 404, <<>>))
       ELSE LET i == MainFirst(file, code)
                upd == [file[i] EXCEPT !.name = p.name, !.serial = p.serial] IN
            /\ Serving(w, [pc |-> "main_save", data |-> [file EXCEPT ![i] = upd],
                           reply |-> Reply("update", code, 200, <<upd>>)])
            /\ UNCHANGED last
    /\ UNCHANGED <<prog, keepalive, file, appStore, clock>>

\* main.py api_delete_asset up to save_data
MainDeleteBegin(w, code) ==
    /\ prog = "main" /\ inflight[w] = Idle
    /\ LET new_assets == Filter(file, LAMBDA a : a.code /= code) IN
       IF Len(new_assets) = Len(file) THEN
            Answer(w, Reply("delete", code, 404, <<>>))
       ELSE
            /\ Serving(w, [pc |-> "main_save", data |-> MainReindex(new_assets),
                           reply |-> Reply("delete", code, 200, <<>>)])
            /\ UNCHANGED last
    /\ UNCHANGED <<prog, keepalive, file, appStore, clock>>

\* A save that keeps what the file holds and adds the assets of the copy
\* that the file lacks.
MainSaveMerging(w) ==
    /\ prog = "main" /\ inflight[w].pc = "main_save"
    /\ file' = file \o Filter(inflight[w].data,
                               LAMBDA a : \A i \in 1..Len(file) : file[i].code /= a.code)
    /\ Answer(w, inflight[w].reply)
    /\ UNCHANGED <<prog, keepalive, appStore, clock>>

\* save_data(data), then the response
MainSave(w) ==
    /\ prog = "main" /\ inflight[w].pc = "main_save"
    /\ file' = inflight[w].data
    /\ Answer(w, inflight[w].reply)
    /\ UNCHANGED <<prog, keepalive, appStore, clock>>

\* app.py api_add_history up to the select on assets
HistBegin(w, body) ==
    /\ prog = "app" /\ inflight[w] = Idle
    /\ IF ~Truthy(body.serial) THEN
            Answer(w, Reply("add_history", body.serial, 400, <<"missing serial">>))
       ELSE IF body.type \notin HistTypes THEN
            Answer(w, Reply("add_history", body.serial, 400, <<"invalid type">>))
       ELSE IF ~\E r \in assets : r.serial = body.serial THEN
            Answer(w, Reply("add_history", body.serial, 404, <<>>))
       ELSE Serving(w, [pc |-> "hist_read", body |-> body]) /\ UNCHANGED last
    /\ UNCHANGED <<prog, keepalive, file, appStore, clock>>

\* app.py api_add_history: the select of the last seq, the entry and its check
HistReadSeq(w) ==
    /\ prog = "app" /\ inflight[w].pc = "hist_read"
    /\ LET body == inflight[w].body
           entry == HistEntry(body, HistNextSeq(history, body.serial)) IN
       IF HistMissing(entry) /= <<>> THEN
            Answer(w, Reply("add_history", body.serial, 400, HistMissing(entry)))
       ELSE Serving(w, [pc |-> "hist_insert", entry |-> entry]) /\ UNCHANGED last
    /\ UNCHANGED <<prog, keepalive, file, appStore, clock>>

\* An insert that takes the sequence when it writes, not when it read.
HistInsertFresh(w) ==
    /\ prog = "app" /\ inflight[w].pc = "hist_insert"
    /\ Len(history) < MaxHist
    /\ LET entry == [inflight[w].entry EXCEPT
                        !.seq = HistNextSeq(history, inflight[w].entry.serial)] IN
       /\ history' = Append(history, entry)
       /\ Answer(w, Reply("add_history", entry.serial, 201, <<entry>>))
    /\ UNCHANGED <<prog, keepalive, file, assets, nextId, files, nextFileId, blobs, clock>>

\* app.py api_add_history: the insert into asset_history, then the response
HistInsert(w) ==
    /\ prog = "app" /\ inflight[w].pc = "hist_insert"
    /\ Len(history) < MaxHist
    /\ LET entry == inflight[w].entry IN
       /\ history' = Append(history, entry)
       /\ Answer(w, Reply("add_history", entry.serial, 201, <<entry>>))
    /\ UNCHANGED <<prog, keepalive, file, assets, nextId, files, nextFileId, blobs, clock>>

\* app.py api_add_asset up to its first select: the required fields, then
\* the select by code when the body carries one, else the select by serial.
AddBegin(w, data) ==
    /\ prog = "app" /\ inflight[w] = Idle
    /\ LET missing == Filter(<<"name", "serial", "status">>, LAMBDA k : ~Truthy(data[k])) IN
       IF missing /= <<>> THEN
            Answer(w, Reply("add", data.serial, 400, missing))
       ELSE IF Truthy(data.code) THEN
            IF \E r \in assets : r.code = data.code
            THEN Answer(w, Reply("add", data.serial, 400, <<"duplicate code">>))
            ELSE Serving(w, [pc |-> "add_check_serial", data |-> data]) /\ UNCHANGED last
       ELSE IF \E r \in assets : r.serial = data.serial
            THEN Answer(w, Reply("add", data.serial, 400, <<"duplicate serial">>))
            ELSE Serving(w, [pc |-> "add_insert", data |-> data]) /\ UNCHANGED last
    /\ UNCHANGED <<prog, keepalive, file, appStore, clock>>

\* app.py api_add_asset: the select by serial after the select by code
AddCheckSerial(w) ==
    /\ prog = "app" /\ inflight[w].pc = "add_check_serial"
    /\ LET data == inflight[w].data IN
       IF \E r \in assets : r.serial = data.serial
       THEN Answer(w, Reply("add", data.serial, 400, <<"duplicate serial">>))
       ELSE Serving(w, [pc |-> "add_insert", data |-> data]) /\ UNCHANGED last
    /\ UNCHANGED <<prog, keepalive, file, appStore, clock>>

\* The row api_add_asset inserts for a body.
AddCreated(data, id) ==
    [id |-> id, code |-> Col(data.code), clc |-> Col(data.clc), serial |-> data.serial,
     name |-> data.name, status |-> data.status,
     warranty_end |-> Col(NormDate(data.warranty_end)), index_num |-> data.index_num]

\* An insert into a table that refuses a code or a serial it already holds.
AddInsertConstrained(w) ==
    /\ prog = "app" /\ inflight[w].pc = "add_insert"
    /\ nextId <= MaxIds
    /\ LET data == inflight[w].data IN
       IF AppAddDuplicate(assets, data) /= <<>> THEN
            /\ Answer(w, Reply("add", data.serial, 500, <<>>))
            /\ UNCHANGED <<assets, nextId>>
       ELSE
            /\ assets' = assets \cup {AddCreated(data, nextId)}
            /\ nextId' = nextId + 1
            /\ Answer(w, Reply("add", data.serial, 201, <<AddCreated(data, nextId)>>))
    /\ UNCHANGED <<prog, keepalive, file, history, files, nextFileId, blobs, clock>>

\* app.py api_add_asset: the insert into assets, then the response
AddInsert(w) ==
    /\ prog = "app" /\ inflight[w].pc = "add_insert"
    /\ nextId <= MaxIds
    /\ LET created == AddCreated(inflight[w].data, nextId) IN
       /\ assets' = assets \cup {created}
       /\ nextId' = nextId + 1
       /\ Answer(w, Reply("add", created.serial, 201, <<created>>))
    /\ UNCHANGED <<prog, keepalive, file, history, files, nextFileId, blobs, clock>>

(* The browser code embedded in app.py *)

\* lookupAssetForHist: list.find(a => serial or clc equals v, case-insensitively)
LookupMatches(a, v) ==
    \/ Truthy(a.serial) /\ Lower(a.serial) = Lower(v)
    \/ Truthy(a.clc) /\ Lower(a.clc) = Lower(v)

\* The asset lookupAssetForHist finds for the text of the input box, if any.
LookupFound(rows, input) ==
    LET v == Trim(input)
        list == AppListing(rows)
        hits == {i \in 1..Len(list) : LookupMatches(list[i], v)}
    IN IF v = Empty \/ hits = {} THEN {}
       ELSE {list[CHOOSE i \in hits : \A j \in hits : i <= j]}

LookupAssetForHist(input) ==
    /\ prog = "app"
    /\ LET found == LookupFound(assets, input) IN
       IF Trim(input) = Empty THEN last' = Reply("lookup", input, 400, <<>>)
       ELSE IF found = {} THEN last' = Reply("lookup", input, 404, <<>>)
       ELSE last' = Reply("lookup", input, 200, <<CHOOSE a \in found : TRUE>>)
    /\ UNCHANGED appStore
    /\ AppFrame

(* Dates.  A date string is two digits, the day of "%Y-%m-%d" within one   *)
(* year and month; any other non-empty string does not parse.              *)
Digits == {"0", "1", "2", "3", "4", "5", "6", "7", "8", "9"}

DigitVal(c) ==
    CASE c = "0" -> 0 [] c = "1" -> 1 [] c = "2" -> 2 [] c = "3" -> 3 [] c = "4" -> 4
      [] c = "5" -> 5 [] c = "6" -> 6 [] c = "7" -> 7 [] c = "8" -> 8 [] c = "9" -> 9

\* datetime.strptime(s, "%Y-%m-%d") succeeds / new Date(s) is a valid date
ParsesAsDate(s) == Len(s) = 2 /\ s[1] \in Digits /\ s[2] \in Digits

DateDay(s) == 10 * DigitVal(s[1]) + DigitVal(s[2])

\* export_excel: d >= date.today(), a date against a date
ExportWarranty(w_end, now) ==
    IF ~Truthy(w_end) THEN ""
    ELSE IF ~ParsesAsDate(w_end) THEN ""
    ELSE IF DateDay(w_end) >= now.day THEN "valid" ELSE "expired"

\* renderRow: d >= today, midnight of the date against the current instant
RenderWarranty(w_end, now) ==
    IF ~Truthy(w_end) THEN ""
    ELSE IF ~ParsesAsDate(w_end) THEN ""
    ELSE IF DateDay(w_end) > now.day \/ (DateDay(w_end) = now.day /\ 0 >= now.tick)
         THEN "valid" ELSE "expired"

AppExportExcel ==
    /\ prog = "app"
    /\ LET o == OrderById(assets) IN
       last' = Reply("export", Empty, 200,
                     [i \in 1..Len(o) |-> [index |-> i, serial |-> o[i].serial,
                                           warranty_end |-> o[i].warranty_end,
                                           label |-> ExportWarranty(o[i].warranty_end, clock)]])
    /\ UNCHANGED appStore
    /\ AppFrame

\* loadTable: fetch /api/assets, then renderRow for each asset
RenderTable ==
    /\ prog = "app"
    /\ LET list == AppListing(assets) IN
       last' = Reply("render", Empty, 200,
                     [i \in 1..Len(list) |-> [index |-> list[i].index, serial |-> list[i].serial,
                                              warranty_end |-> list[i].warranty_end,
                                              label |-> RenderWarranty(list[i].warranty_end, clock)]])
    /\ UNCHANGED appStore
    /\ AppFrame

\* Time passes: the next instant of the day, then the next day.
Tick ==
    /\ IF clock.tick < MaxTick THEN clock' = [clock EXCEPT !.tick = @ + 1]
       ELSE /\ clock.day < MaxDay
            /\ clock' = [day |-> clock.day + 1, tick |-> 0]
    /\ UNCHANGED <<prog, keepalive, file, appStore, inflight, last>>

----------------------------------------------------------------------------
(* Display index: insertions, updates, deletions and listings of both      *)
(* services.  The app.py rows carry arbitrary stored index_num values.     *)
S1 == <<"s", "1">>
S2 == <<"s", "2">>
S3 == <<"s", "3">>
A1 == <<"A", "1">>
A2 == <<"A", "2">>
A3 == <<"A", "3">>
A4 == <<"A", "4">>
OK == <<"O", "K">>
Calib == <<"C", "a", "l", "i", "b">>

IdxMainCodes == {A1, A2, A3, A4}
IdxMainPayloads == [code : IdxMainCodes \cup {Empty}, name : {<<"n">>}, serial : {S1}]
IdxMainUpdates == [name : {<<"n">>, <<"m">>}, serial : {S1}]
IdxSerials == {S1, S2, S3}
IdxAppPayloads ==
    [serial : IdxSerials, code : {Absent}, clc : {Absent}, name : {<<"n">>}, status : {OK},
     warranty_end : {Empty}, index_num : {0, 1, 3}]
IdxAppUpdates ==
    [code : {Absent}, clc : {Absent}, serial : {Absent}, name : {Absent, <<"m">>},
     status : {Absent}, warranty_end : {Absent}, id : {7}, index_num : {5}]

NextIndex ==
    \/ MainGetAssets
    \/ \E p \in IdxMainPayloads : MainAddAsset(p)
    \/ \E c \in IdxMainCodes, p \in IdxMainUpdates : MainUpdateAsset(c, p)
    \/ \E c \in IdxMainCodes : MainDeleteAsset(c)
    \/ AppListAssets
    \/ \E d \in IdxAppPayloads : AppAddAsset(d)
    \/ \E s \in IdxSerials, b \in IdxAppUpdates : AppUpdateAsset(s, b)
    \/ \E s \in IdxSerials : AppDeleteAsset(s)

SpecIndex == Init /\ [][NextIndex]_vars

\* C1: index gaplessness.  In main.py the stored indices of the N assets of the
\* file are 1..N in list (creation) order in every state, so also after every
\* delete; in app.py a list response numbers the N live rows 1..N by ascending id.
C1_IndexGapless ==
    /\ prog = "main" => \A i \in 1..Len(file) : file[i].index = i
    /\ (prog = "app" /\ last.op = "list") =>
          /\ Len(last.out) = Cardinality(assets)
          /\ {last.out[i].index : i \in 1..Len(last.out)} = 1..Cardinality(assets)
          /\ \A i, j \in 1..Len(last.out) :
                last.out[i].id < last.out[j].id <=> last.out[i].index < last.out[j].index

\* Three assets A1, A2, A3; the delete of A2 has just succeeded and A3 carries index 2.
C1_Witness ==
    /\ prog = "main"
    /\ last.op = "delete" /\ last.status = 200 /\ last.arg = A2
    /\ Len(file) = 2
    /\ file[1].code = A1 /\ file[1].index = 1
    /\ file[2].code = A3 /\ file[2].index = 2

C11_RepairIdempotent ==
    /\ prog = "main" =>
          \A c \in IdxMainCodes :
              LET kept == Filter(file, LAMBDA a : a.code /= c)
              IN MainReindex(MainReindex(kept)) = MainReindex(kept)
    /\ prog = "app" => AppListing(Range(AppListing(assets))) = AppListing(assets)

\* A delete has left two assets, and what a delete of the first one keeps
\* carries index 2 before the reindex and index 1 after it.
C11_Witness ==
    /\ prog = "main" /\ last.op = "delete" /\ last.status = 200 /\ Len(file) = 2
    /\ LET kept == Filter(file, LAMBDA a : a.code /= file[1].code)
       IN kept[1].index = 2 /\ MainReindex(kept)[1].index = 1

\* C18: index allocator.  A step that inserts an asset gives it the index
\* max + 1 over the indices of the assets there before, 1 when there was none:
\* in main.py that is the index stored and returned, in app.py the index of
\* the listing, where the new row comes last.
C18_IndexAllocator ==
    /\ [][(prog = "main" /\ Len(file') = Len(file) + 1) =>
             LET old == {file[i].index : i \in 1..Len(file)}
                 idx == IF old = {} THEN 1 ELSE SetMax(old) + 1
             IN /\ file'[Len(file')].index = idx
                /\ last'.op = "add" /\ last'.out[1].index = idx
                /\ SubSeq(file', 1, Len(file)) = file]_vars
    /\ [][(prog = "app" /\ Cardinality(assets') = Cardinality(assets) + 1) =>
             LET old == AppListing(assets)
                 new == AppListing(assets')
                 idx == IF old = <<>> THEN 1
                        ELSE SetMax({old[i].index : i \in 1..Len(old)}) + 1
             IN /\ last'.op = "add" /\ new[Len(new)].id = last'.out[1].id
                /\ new[Len(new)].index = idx]_vars

\* The third asset of main.py has just been added with index 3.
C18_Witness ==
    /\ prog = "main" /\ last.op = "add" /\ last.status = 201
    /\ Len(file) = 3 /\ file[3].index = 3 /\ last.out[1].index = 3
    /\ file[3].code = last.arg

----------------------------------------------------------------------------
(* History: assets, fault and calibration entries, attached files and      *)
(* deletions of both services.                                             *)
D1 == <<"0", "1">>
D2 == <<"0", "2">>
D3 == <<"0", "3">>

HistSerials == {S1, S2}
HistMainPayloads == [code : {A1, A2}, name : {<<"n">>}, serial : {S1}]
HistMainFaults == [fault : {<<"f">>}]
HistAppPayloads ==
    [serial : HistSerials, code : {Absent}, clc : {Absent}, name : {<<"n">>}, status : {OK},
     warranty_end : {Empty}, index_num : {0}]
HistFaultBodies ==
    [serial : HistSerials, type : {"fault"}, fault : {<<"f">>}, fault_date : {D2},
     calib_date : {Absent}, expire_date : {Absent}]
HistCalibBodies ==
    [serial : HistSerials, type : {"calib"}, fault : {Absent}, fault_date : {Absent},
     calib_date : {D1, D2}, expire_date : {D1, D3}]
HistUploads == {<<[filename |-> <<"f">>, size |-> 1]>>}

NextHist ==
    \/ \E p \in HistMainPayloads : MainAddAsset(p)
    \/ \E c \in {A1, A2}, h \in HistMainFaults : MainAddHistory(c, h)
    \/ \E c \in {A1, A2} : MainGetHistory(c)
    \/ \E c \in {A1, A2} : MainDeleteAsset(c)
    \/ \E d \in HistAppPayloads : AppAddAsset(d)
    \/ \E b \in HistFaultBodies \cup HistCalibBodies : AppAddHistory(b)
    \/ \E s \in HistSerials : AppGetHistory(s)
    \/ \E s \in HistSerials, u \in HistUploads : AppUploadFiles(s, u)
    \/ \E s \in HistSerials : AppListFiles(s)
    \/ \E s \in HistSerials : AppDeleteAsset(s)

SpecHist == Init /\ [][NextHist]_vars

\* C2: per-category sequence independence.  For every asset and every category,
\* the sequences of the asset's entries of that category are exactly 1..k, k
\* the number of such entries.
C2_PerCategorySeq ==
    /\ prog = "main" =>
          \A i \in 1..Len(file) :
              {file[i].history[k].seq : k \in 1..Len(file[i].history)} = 1..Len(file[i].history)
    /\ prog = "app" =>
          \A s \in HistSerials, t \in {"fault", "calib"} :
              LET mine == {k \in 1..Len(history) : history[k].serial = s /\ history[k].type = t}
              IN {history[k].seq : k \in mine} = 1..Cardinality(mine)

\* The calibration entry of an asset with the latest calib_date, the latest
\* sequence among equal dates.
LatestCalib(rows, serial) ==
    LET mine == {k \in 1..Len(rows) : rows[k].serial = serial /\ rows[k].type = "calib"}
    IN rows[CHOOSE k \in mine : \A j \in mine :
                \/ DateDay(rows[j].calib_date) < DateDay(rows[k].calib_date)
                \/ /\ DateDay(rows[j].calib_date) = DateDay(rows[k].calib_date)
                   /\ rows[j].seq <= rows[k].seq]

\* C3: calibration status side effect.  A step that stores a calibration entry
\* leaves the owning asset with status "Calib" when the asset's latest
\* calibration entry expired before today, and with its former status otherwise.
C3_CalibStatus ==
    [][(prog = "app" /\ Len(history') = Len(history) + 1
            /\ history'[Len(history')].type = "calib") =>
          LET e == history'[Len(history')]
              expired == DateDay(LatestCalib(history', e.serial).expire_date) < clock.day
          IN \A r \in assets : r.serial = e.serial =>
                \E r2 \in assets' :
                    r2.id = r.id /\ r2.status = IF expired THEN Calib ELSE r.status]_vars

\* C8: delete cascade.  After a successful delete no history entry and no file
\* record refers to the deleted asset, and an asset that has just been created
\* has no history.
C8_DeleteCascade ==
    /\ (prog = "app" /\ last.op = "delete" /\ last.status = 200) =>
          /\ \A k \in 1..Len(history) : history[k].serial /= last.arg
          /\ \A k \in 1..Len(files) : files[k].serial /= last.arg
    /\ (prog = "app" /\ last.op = "add" /\ last.status = 201) =>
          \A k \in 1..Len(history) : history[k].serial /= last.arg
    /\ (prog = "main" /\ last.op = "add" /\ last.status = 201) =>
          file[Len(file)].history = <<>>

----------------------------------------------------------------------------
(* Ledger: assets in and out of service, history requests that are valid,  *)
(* incomplete or of an unknown type, and the requests that may follow a    *)
(* stored entry, in both services.                                         *)
LedSerials == {S1, S2}
LedCodes == {A1, A2}
LedMainPayloads == [code : LedCodes, name : {<<"n">>}, serial : {S1}]
LedMainUpdates == [name : {<<"m">>}, serial : {S1}]
LedMainFaults == [fault : {<<"f">>, Empty}]
LedAppPayloads ==
    [serial : LedSerials, code : {Absent}, clc : {Absent}, name : {<<"n">>},
     status : {OK, Calib}, warranty_end : {Empty}, index_num : {0}]
LedAppUpdates ==
    [code : {Absent}, clc : {Absent}, serial : {Absent}, name : {Absent},
     status : {OK}, warranty_end : {Absent}, id : {7}, index_num : {5}]
LedFaultBodies ==
    [serial : {S1}, type : {"fault"}, fault : {<<"f">>, Absent}, fault_date : {D2, Empty},
     calib_date : {Absent}, expire_date : {Absent}]
LedCalibBodies ==
    [serial : {S1}, type : {"calib"}, fault : {Absent}, fault_date : {Absent},
     calib_date : {D1, Absent}, expire_date : {D1, Empty}]
      \cup [serial : {S1}, type : {"calib"}, fault : {Absent}, fault_date : {Absent},
            calib_date : {D3}, expire_date : {D3}]
\* Bodies whose type is not a category, "None" standing for a body without type.
LedOtherBodies ==
    [serial : {S1}, type : {"audit", "None"}, fault : {<<"f">>}, fault_date : {D2},
     calib_date : {D3}, expire_date : {D3}]
LedBodies == LedFaultBodies \cup LedCalibBodies \cup LedOtherBodies

NextLedger ==
    \/ MainGetAssets
    \/ \E p \in LedMainPayloads : MainAddAsset(p)
    \/ \E p \in LedMainUpdates : MainUpdateAsset(A1, p)
    \/ MainDeleteAsset(A2)
    \/ \E c \in LedCodes, h \in LedMainFaults : MainAddHistory(c, h)
    \/ MainGetHistory(A1)
    \/ AppListAssets
    \/ AppExportExcel
    \/ \E d \in LedAppPayloads : AppAddAsset(d)
    \/ \E b \in LedAppUpdates : AppUpdateAsset(S1, b)
    \/ AppDeleteAsset(S2)
    \/ \E b \in LedBodies : AppAddHistory(b)
    \/ AppGetHistory(S1)

SpecLedger == Init /\ [][NextLedger]_vars

\* C12: non-reverting status.  An add-history request leaves every asset whose
\* status is "Calib" as it is, and a step after which a surviving asset is no
\* longer "Calib" is a successful update.
C12_NonReverting ==
    /\ [][(\E b \in LedBodies : AppAddHistory(b)) =>
             \A r \in assets : r.status = Calib => r \in assets']_vars
    /\ [][\A r \in assets :
             (r.status = Calib /\ \E r2 \in assets' : r2.id = r.id /\ r2.status /= Calib) =>
                 last'.op = "update" /\ last'.status = 200]_vars

\* An asset is "Calib" after a calibration entry that expired and a later one,
\* just stored, that expires in the future.
C12_Witness ==
    /\ prog = "app" /\ last.op = "add_history" /\ last.status = 201
    /\ Len(history) = 2
    /\ history[1].type = "calib" /\ history[1].calib_date = D1 /\ history[1].expire_date = D1
    /\ history[2].type = "calib" /\ history[2].calib_date = D3 /\ history[2].expire_date = D3
    /\ \E r \in assets : r.serial = S1 /\ r.status = Calib

\* C13: fault entries derive no status.  An add-history request for a fault
\* entry changes no asset of app.py, and an add-history request of main.py
\* changes nothing of any asset but the history of the asset it names.
C13_FaultLeavesAssets ==
    /\ [][(\E b \in LedFaultBodies : AppAddHistory(b)) =>
             assets' = assets /\ UNCHANGED <<nextId, files, nextFileId, blobs>>]_vars
    /\ [][(\E c \in LedCodes, h \in LedMainFaults : MainAddHistory(c, h)) =>
             /\ Len(file') = Len(file)
             /\ \A i \in 1..Len(file) :
                   /\ [file'[i] EXCEPT !.history = <<>>] = [file[i] EXCEPT !.history = <<>>]
                   /\ file[i].code /= last'.arg => file'[i] = file[i]]_vars

\* A fault entry has just been stored for an asset that is "Calib", next to
\* another asset.
C13_Witness ==
    /\ prog = "app" /\ last.op = "add_history" /\ last.status = 201
    /\ last.out[1].type = "fault"
    /\ Cardinality(assets) = 2
    /\ \E r \in assets : r.serial = last.arg /\ r.status = Calib

\* C14: sequences are assigned once.  Whatever the step, every stored history
\* row of app.py keeps its place, its asset, its sequence and its type, and
\* every history entry of a main.py asset that is still in the file is still
\* on that asset, unchanged, at the same place.
C14_SeqAssignedOnce ==
    /\ [][prog = "app" =>
             \A k \in 1..Len(history) :
                 /\ k <= Len(history')
                 /\ history'[k].serial = history[k].serial
                 /\ history'[k].seq = history[k].seq
                 /\ history'[k].type = history[k].type]_vars
    /\ [][prog = "main" =>
             \A i \in 1..Len(file), j \in 1..Len(file') :
                 file'[j].code = file[i].code =>
                     \A k \in 1..Len(file[i].history) :
                         /\ k <= Len(file'[j].history)
                         /\ file'[j].history[k] = file[i].history[k]]_vars

\* An asset of main.py with two entries, 1 and 2, has just been updated.
C14_Witness ==
    /\ prog = "main" /\ last.op = "update" /\ last.status = 200
    /\ \E i \in 1..Len(file) :
          /\ file[i].code = last.arg
          /\ Len(file[i].history) = 2
          /\ file[i].history[1].seq = 1 /\ file[i].history[2].seq = 2

\* C15: InvalidCategory.  Every stored history row of app.py has type fault or
\* calib, and an add-history request whose type is missing or is any other
\* value is answered with 400 and changes no table.
C15_InvalidCategory ==
    /\ [](prog = "app" => \A k \in 1..Len(history) : history[k].type \in {"fault", "calib"})
    /\ [][(\E b \in LedOtherBodies : AppAddHistory(b)) =>
             last'.status = 400 /\ UNCHANGED appStore]_vars

\* A request with an unknown type for an existing asset that has one entry
\* has just been rejected.
C15_Witness ==
    /\ prog = "app" /\ last.op = "add_history" /\ last.status = 400
    /\ last.out = <<"invalid type">>
    /\ \E r \in assets : r.serial = last.arg
    /\ Len(history) = 1

\* The required fields of a history request of app.py that the body lacks:
\* the key is missing, or its value is null or the empty string.
Lacking(b) ==
    {k \in (IF b.type = "fault" THEN {"fault", "fault_date"} ELSE {"calib_date", "expire_date"}) :
        b[k] \in {Absent, None, Empty}}

\* C16: MissingRequiredField.  An add-history request that lacks a required
\* field of its type is answered with an error and changes no table, so the
\* next sequence of the asset is the same; when the asset exists the answer is
\* 400 and lists the lacking fields, each once and no other.  In main.py a
\* request without fault is answered 400 with the list <<fault>> and changes
\* nothing.
C16_MissingRequiredField ==
    /\ [][\A b \in LedFaultBodies \cup LedCalibBodies :
             (Lacking(b) /= {} /\ AppAddHistory(b)) =>
                 /\ last'.status \in {400, 404}
                 /\ UNCHANGED appStore
                 /\ HistNextSeq(history', b.serial) = HistNextSeq(history, b.serial)
                 /\ (\E r \in assets : r.serial = b.serial) =>
                       /\ last'.status = 400
                       /\ Range(last'.out) = Lacking(b)
                       /\ Len(last'.out) = Cardinality(Lacking(b))]_vars
    /\ [][\A c \in LedCodes, h \in LedMainFaults :
             (~Truthy(h.fault) /\ MainAddHistory(c, h)) =>
                 last'.status = 400 /\ last'.out = <<"fault">> /\ UNCHANGED file]_vars

\* A calibration request lacking both dates, for an existing asset that has
\* one entry, has just been rejected with the two names.
C16_Witness ==
    /\ prog = "app" /\ last.op = "add_history" /\ last.status = 400
    /\ last.out = <<"calib_date", "expire_date">>
    /\ \E r \in assets : r.serial = last.arg
    /\ Len(history) = 1 /\ HistNextSeq(history, last.arg) = 2

----------------------------------------------------------------------------
(* Identifiers: additions, updates, reads and deletions of both services,  *)
(* with codes and serials that repeat.                                     *)
CrudSerials == {S1, S2}
CrudCodes == {A1, A2}
CrudMainPayloads == [code : CrudCodes, name : {<<"n">>}, serial : CrudSerials]
CrudMainUpdates == [name : {<<"n">>}, serial : CrudSerials]
CrudAppPayloads ==
    [serial : CrudSerials, code : CrudCodes \cup {Absent}, clc : {Absent}, name : {<<"n">>},
     status : {OK}, warranty_end : {Empty}, index_num : {0}]
CrudAppUpdates ==
    [code : CrudCodes \cup {Absent}, clc : {Absent}, serial : CrudSerials \cup {Absent},
     name : {Absent, <<"m">>}, status : {Absent}, warranty_end : {Absent},
     id : {7}, index_num : {5}]
CrudFaultBodies ==
    [serial : CrudSerials, type : {"fault"}, fault : {<<"f">>}, fault_date : {D2},
     calib_date : {Absent}, expire_date : {Absent}]

NextCrud ==
    \/ \E p \in CrudMainPayloads : MainAddAsset(p)
    \/ \E c \in CrudCodes : MainGetAsset(c)
    \/ \E c \in CrudCodes, p \in CrudMainUpdates : MainUpdateAsset(c, p)
    \/ \E c \in CrudCodes : MainDeleteAsset(c)
    \/ \E c \in CrudCodes, h \in HistMainFaults : MainAddHistory(c, h)
    \/ \E d \in CrudAppPayloads : AppAddAsset(d)
    \/ \E s \in CrudSerials : AppGetAsset(s)
    \/ \E s \in CrudSerials, b \in CrudAppUpdates : AppUpdateAsset(s, b)
    \/ \E s \in CrudSerials : AppDeleteAsset(s)
    \/ \E b \in CrudFaultBodies : AppAddHistory(b)

SpecCrud == Init /\ [][NextCrud]_vars

\* The (code, serial) pairs of the live assets, one per asset.
LiveIds ==
    IF prog = "main" THEN [i \in 1..Len(file) |-> <<file[i].code, file[i].serial>>]
    ELSE LET o == OrderById(assets) IN [i \in 1..Len(o) |-> <<o[i].code, o[i].serial>>]

\* C4: identifier uniqueness.  No two live assets share a code, no two live
\* assets of app.py share a serial (main.py identifies an asset by its code
\* alone), and a request answered with a duplicate error changes no table.
C4_UniqueIdentifiers ==
    /\ [](\A i, j \in 1..Len(LiveIds) :
              i /= j => /\ prog = "app" => LiveIds[i][2] /= LiveIds[j][2]
                        /\ Truthy(LiveIds[i][1]) => LiveIds[i][1] /= LiveIds[j][1])
    /\ [][(last' /= last /\ last'.status = 400) => UNCHANGED <<file, appStore>>]_vars

\* Whether an identifier names a live asset: by code in main.py, by serial in app.py.
Resolves(arg) ==
    IF prog = "main" THEN \E i \in 1..Len(file) : file[i].code = arg
    ELSE \E r \in assets : r.serial = arg

\* C7: NotFound.  A get, update, delete or add-history request that passes
\* validation and whose identifier matches no live asset is answered with 404
\* (an update of app.py also with 500, where the client raises for no row)
\* and changes no table.
C7_NotFound ==
    [][(/\ last' /= last
        /\ last'.op \in {"get", "update", "delete", "add_history"}
        /\ last'.status /= 400
        /\ ~Resolves(last'.arg)) =>
            /\ last'.status = 404 \/ (last'.op = "update" /\ last'.status = 500)
            /\ UNCHANGED <<file, appStore>>]_vars

----------------------------------------------------------------------------
(* Updates: bodies that carry allowed fields, a serial or a code another   *)
(* asset has, and fields outside the allowed set, in both services.        *)
UpdSerials == {S1, S2}
UpdCodes == {A1, A2}
UpdMainPayloads == [code : UpdCodes, name : {<<"n">>}, serial : {S1}]
UpdMainUpdates == [name : {<<"m">>, Empty}, serial : UpdSerials]
UpdAppPayloads ==
    [serial : UpdSerials, code : {A1, Absent}, clc : {Absent}, name : {<<"n">>},
     status : {OK}, warranty_end : {Empty}, index_num : {3}]
UpdAppUpdates ==
    [code : {A1, Absent}, clc : {Absent}, serial : {S2, Absent}, name : {Absent, <<"m">>},
     status : {Absent}, warranty_end : {Absent}, id : {7}, index_num : {5}]

NextUpdate ==
    \/ \E p \in UpdMainPayloads : MainAddAsset(p)
    \/ \E c \in UpdCodes, p \in UpdMainUpdates : MainUpdateAsset(c, p)
    \/ \E c \in UpdCodes, h \in HistMainFaults : MainAddHistory(c, h)
    \/ \E d \in UpdAppPayloads : AppAddAsset(d)
    \/ \E s \in UpdSerials, b \in UpdAppUpdates : AppUpdateAsset(s, b)

SpecUpdate == Init /\ [][NextUpdate]_vars

\* C17: an update touches payload only.  A step of api_update_asset of app.py
\* inserts and deletes no row and changes no other table; every row keeps its
\* id, its stored index_num and its place in the listing; a row with another
\* serial is unchanged; and a column that changes is one of code, clc, serial,
\* name, status, warranty_end that the body carries, and takes the body's
\* value.  A step of api_update_asset of main.py keeps index, code and history
\* of every asset, changes no asset with another code, and gives name and
\* serial the payload's values.
C17_UpdatePayloadOnly ==
    /\ [][\A s \in UpdSerials, b \in UpdAppUpdates :
             (last'.op = "update" /\ last'.arg = s /\ AppUpdateAsset(s, b)) =>
                 /\ UNCHANGED <<nextId, history, files, nextFileId, blobs>>
                 /\ Cardinality(assets') = Cardinality(assets)
                 /\ \A i \in 1..Cardinality(assets) :
                       AppListing(assets')[i].id = AppListing(assets)[i].id
                 /\ \A r \in assets :
                       \E r2 \in assets' :
                           /\ r2.id = r.id /\ r2.index_num = r.index_num
                           /\ r.serial /= s => r2 = r
                           /\ \A f \in DOMAIN r :
                                 r2[f] /= r[f] =>
                                     /\ f \in {"code", "clc", "serial", "name", "status",
                                                "warranty_end"}
                                     /\ b[f] /= Absent
                                     /\ r2[f] = NormDate(b[f])]_vars
    /\ [][\A c \in UpdCodes, p \in UpdMainUpdates :
             (last'.op = "update" /\ last'.arg = c /\ MainUpdateAsset(c, p)) =>
                 /\ Len(file') = Len(file)
                 /\ \A i \in 1..Len(file) :
                       /\ file'[i].index = file[i].index
                       /\ file'[i].code = file[i].code
                       /\ file'[i].history = file[i].history
                       /\ file[i].code /= c => file'[i] = file[i]
                       /\ file'[i] /= file[i] =>
                             file'[i].name = p.name /\ file'[i].serial = p.serial]_vars

\* One of two rows of app.py has just been renamed by an update whose body
\* also carried id and index_num.
C17_Witness ==
    /\ prog = "app" /\ last.op = "update" /\ last.status = 200
    /\ Cardinality(assets) = 2
    /\ \E r \in assets : r.serial = last.arg /\ r.name = <<"m">> /\ r.id \in {1, 2}
    /\ \E r \in assets : r.serial /= last.arg /\ r.name = <<"n">>

----------------------------------------------------------------------------
(* Resolution: what the services and the browser find for an identifier    *)
(* typed in any letter case, with or without surrounding blanks.           *)
ResSerials == {<<"s", "1">>, <<"S", "2">>}
ResCodes == {A1, <<"a", "2">>}
ResClcs == {<<"c", "1">>}
ResIdentifiers ==
    {<<"s", "1">>, <<"S", "1">>, <<" ", "s", "1", " ">>, <<"S", "2">>, <<"s", "2">>,
     A1, <<"a", "1">>, <<"a", "2">>, <<"c", "1">>, <<"C", "1">>, <<" ">>}
ResMainPayloads == [code : ResCodes, name : {<<"n">>}, serial : ResSerials]
ResAppPayloads ==
    [serial : ResSerials, code : ResCodes \cup {Absent}, clc : ResClcs \cup {Absent},
     name : {<<"n">>}, status : {OK}, warranty_end : {Empty}, index_num : {0}]

NextResolve ==
    \/ \E p \in ResMainPayloads : MainAddAsset(p)
    \/ \E x \in ResIdentifiers : MainGetAsset(x)
    \/ \E d \in ResAppPayloads : AppAddAsset(d)
    \/ \E x \in ResIdentifiers : AppGetAsset(x)
    \/ \E x \in ResIdentifiers : LookupAssetForHist(x)

SpecResolve == Init /\ [][NextResolve]_vars

\* The live assets of app.py one of whose identifiers (code, clc, serial)
\* equals x, in creation order.
Identified(x) ==
    Filter(OrderById(assets), LAMBDA a : a.code = x \/ a.clc = x \/ a.serial = x)

\* C5: resolver precedence.  In app.py, resolving an identifier that equals the
\* code, the clc or the serial of some live asset answers with the first such
\* asset in creation order.
C5_ResolverPrecedence ==
    (prog = "app" /\ last.op \in {"get", "lookup"} /\ Identified(last.arg) /= <<>>) =>
        /\ last.status = 200
        /\ last.out[1].id = Identified(last.arg)[1].id

\* What a resolver of app.py answers for x in the current state: the ids of
\* the assets it may return.
Resolved(op, x) ==
    IF op = "get" THEN {a.id : a \in AppGetMatches(assets, x)}
    ELSE {a.id : a \in LookupFound(assets, x)}

\* C6: resolver normalisation.  In app.py, an identifier resolves to what every
\* identifier does that differs from it only in letter case or surrounding blanks.
C6_ResolverNormalises ==
    (prog = "app" /\ last.op \in {"get", "lookup"}) =>
        \A y \in ResIdentifiers :
            Lower(Trim(y)) = Lower(Trim(last.arg)) =>
                Resolved(last.op, y) = Resolved(last.op, last.arg)

----------------------------------------------------------------------------
(* Warranty labels: the export and the browser table over assets whose     *)
(* warranty ends before, on and after the days the clock passes through.   *)
WarSerials == {S1, S2}
WarAppPayloads ==
    [serial : WarSerials, code : {Absent}, clc : {Absent}, name : {<<"n">>}, status : {OK},
     warranty_end : {Empty, D1, D2, D3, <<"x">>}, index_num : {0}]

NextWarranty ==
    \/ \E d \in WarAppPayloads : AppAddAsset(d)
    \/ \E s \in WarSerials : AppDeleteAsset(s)
    \/ AppExportExcel
    \/ RenderTable
    \/ Tick

SpecWarranty == Init /\ [][NextWarranty]_vars

\* The label of the warranty contract: "" without a parsable date, "valid" up
\* to and including the end date, "expired" after it.
WarrantyLabel(w_end, today) ==
    IF ~Truthy(w_end) \/ ~ParsesAsDate(w_end) THEN ""
    ELSE IF DateDay(w_end) >= today THEN "valid" ELSE "expired"

\* C9: warranty label boundary.  Every label of an export and of a rendered
\* table is the contract's label for the asset's warranty_end on the day of
\* the request, so both show the same label for the same asset on the same day.
C9_WarrantyLabel ==
    last.op \in {"export", "render"} =>
        \A i \in 1..Len(last.out) :
            last.out[i].label = WarrantyLabel(last.out[i].warranty_end, last.at.day)

----------------------------------------------------------------------------
(* Races: two handlers serving add-asset and add-history requests of       *)
(* app.py, and add-history requests of main.py, step by step.              *)
RaceAppPayloads ==
    {d \in [serial : {S1, S2}, code : {A1, Absent}, clc : {Absent}, name : {<<"n">>},
            status : {OK}, warranty_end : {Empty}, index_num : {0}] :
        d.serial = S1 \/ d.code = A1}
RaceBodies ==
    [serial : {S1}, type : {"fault"}, fault : {<<"f">>}, fault_date : {D2},
     calib_date : {Absent}, expire_date : {Absent}]
      \cup [serial : {S1}, type : {"calib"}, fault : {Absent}, fault_date : {Absent},
            calib_date : {D1}, expire_date : {D3}]
RaceMainPayloads == [code : {A1}, name : {<<"n">>}, serial : {S1}]

NextRace ==
    \/ \E p \in RaceMainPayloads : MainAddAsset(p)
    \/ \E w \in Workers, h \in LedMainFaults : MainHistBegin(w, A1, h)
    \/ \E w \in Workers : MainSave(w)
    \/ \E w \in Workers, d \in RaceAppPayloads : AddBegin(w, d)
    \/ \E w \in Workers : AddCheckSerial(w)
    \/ \E w \in Workers : AddInsert(w)
    \/ \E w \in Workers, b \in RaceBodies : HistBegin(w, b)
    \/ \E w \in Workers : HistReadSeq(w)
    \/ \E w \in Workers : HistInsert(w)

SpecRace == Init /\ [][NextRace]_vars

\* C19: history sequence race.  In app.py the insert of an add-history request
\* stores the entry with the sequence the request read, whatever has been
\* inserted since, so two requests that read the same maximum store the same
\* sequence; in main.py a request saves the history list it loaded with its
\* entry appended, so the stored list of an asset is numbered 1..n and the
\* second of two such requests replaces the entry of the first.
C19_HistorySeqRace ==
    /\ [][\A w \in Workers :
             (prog = "app" /\ inflight[w].pc = "hist_insert" /\ inflight'[w] = Idle) =>
                 /\ history' = Append(history, inflight[w].entry)
                 /\ last'.status = 201 /\ last'.out = <<inflight[w].entry>>]_vars
    /\ [](prog = "main" =>
             \A i \in 1..Len(file) : \A k \in 1..Len(file[i].history) :
                 file[i].history[k].seq = k)

\* Two fault entries of the same asset are stored with sequence 1.
C19_Witness ==
    /\ prog = "app" /\ last.op = "add_history" /\ last.status = 201
    /\ Len(history) = 2
    /\ history[1].serial = history[2].serial
    /\ history[1].type = "fault" /\ history[2].type = "fault"
    /\ history[1].seq = 1 /\ history[2].seq = 1

\* C20: uniqueness race.  The insert of an add-asset request of app.py, made
\* after its duplicate checks have passed, adds the row of the request and
\* answers 201 whatever rows have been inserted since the checks, so two
\* requests with the same code or the same serial that both pass the checks
\* are both inserted.
C20_UniquenessRace ==
    [][\A w \in Workers :
          (prog = "app" /\ inflight[w].pc = "add_insert" /\ inflight'[w] = Idle) =>
              /\ last'.op = "add" /\ last'.status = 201
              /\ Cardinality(assets') = Cardinality(assets) + 1
              /\ \E r \in assets' \ assets :
                    /\ r.serial = inflight[w].data.serial
                    /\ r.code = Col(inflight[w].data.code)]_vars

\* Two live rows share code and serial, and both handlers are at rest.
C20_Witness ==
    /\ prog = "app" /\ last.op = "add" /\ last.status = 201
    /\ \A w \in Workers : inflight[w] = Idle
    /\ \E r1, r2 \in assets :
          r1.id /= r2.id /\ r1.serial = r2.serial /\ r1.code = A1 /\ r2.code = A1

----------------------------------------------------------------------------
(* File races: two handlers of main.py serving add, update, delete and     *)
(* add-history requests, load_data and save_data each one step.            *)
FileCodes == {A1, A2}
FilePayloads == [code : FileCodes, name : {<<"n">>}, serial : {S1}]
FileUpdates == [name : {<<"m">>}, serial : {S1}]

NextFile ==
    \/ \E w \in Workers, p \in FilePayloads : MainAddBegin(w, p)
    \/ \E w \in Workers, p \in FileUpdates : MainUpdateBegin(w, A1, p)
    \/ \E w \in Workers, c \in FileCodes : MainDeleteBegin(w, c)
    \/ \E w \in Workers, h \in HistMainFaults : MainHistBegin(w, A1, h)
    \/ \E w \in Workers : MainSave(w)

SpecFile == Init /\ [][NextFile]_vars

\* C21: index allocation race.  An add-asset request of main.py takes the
\* index len + 1 of the file it loaded, whatever other requests have loaded
\* and not yet saved, so two requests that load the same file take the same
\* index; and its save writes the copy it loaded with the new asset appended.
C21_IndexRace ==
    /\ [][\A w \in Workers :
             (prog = "main" /\ inflight[w] = Idle /\ inflight'[w].pc = "main_save"
                  /\ inflight'[w].reply.op = "add") =>
                 /\ inflight'[w].reply.out[1].index = Len(file) + 1
                 /\ inflight'[w].data = Append(file, inflight'[w].reply.out[1])]_vars
    /\ [][\A w \in Workers :
             (prog = "main" /\ inflight[w].pc = "main_save" /\ inflight'[w] = Idle) =>
                 file' = inflight[w].data /\ last' = inflight[w].reply]_vars

\* Both handlers are about to save an asset, A1 and A2, each with index 1.
C21_Witness ==
    /\ prog = "main"
    /\ \A w \in Workers :
          /\ inflight[w].pc = "main_save" /\ inflight[w].reply.op = "add"
          /\ inflight[w].reply.status = 201 /\ inflight[w].reply.out[1].index = 1
    /\ inflight["w1"].reply.arg = A1 /\ inflight["w2"].reply.arg = A2

\* C24: no lost write in main.py.  Whatever the step, every asset of the file
\* is still in the file afterwards with every entry of its history, unless
\* the step is the successful delete of that asset.
C24_NoLostWrite ==
    [][prog = "main" =>
          \A i \in 1..Len(file) :
              \/ last'.op = "delete" /\ last'.status = 200 /\ last'.arg = file[i].code
              \/ \E j \in 1..Len(file') :
                    /\ file'[j].code = file[i].code
                    /\ \A k \in 1..Len(file[i].history) :
                          /\ k <= Len(file'[j].history)
                          /\ file'[j].history[k] = file[i].history[k]]_vars

\* C25: stored gaplessness under interleaving.  In every state of main.py the
\* file, and every copy a handler is about to save, carries the indices 1..N
\* in list order.
C25_StoredGapless ==
    prog = "main" =>
        /\ \A i \in 1..Len(file) : file[i].index = i
        /\ \A w \in Workers :
              inflight[w].pc = "main_save" =>
                  \A i \in 1..Len(inflight[w].data) : inflight[w].data[i].index = i

\* The file holds A1 and A2, and a handler is about to save a delete of A1 it
\* computed from that file: a copy that holds A2 alone, with index 1.
C25_Witness ==
    /\ prog = "main" /\ Len(file) = 2
    /\ file[1].code = A1 /\ file[2].code = A2 /\ file[2].index = 2
    /\ \E w \in Workers :
          /\ inflight[w].pc = "main_save" /\ inflight[w].reply.op = "delete"
          /\ Len(inflight[w].data) = 1
          /\ inflight[w].data[1].code = A2 /\ inflight[w].data[1].index = 1
    /\ \E w \in Workers :
          inflight[w].pc = "main_save" /\ inflight[w].reply.op = "add"

----------------------------------------------------------------------------
(* Faults: the requests of app.py with store calls that fail.              *)
FaultPayloads ==
    {d \in [serial : {S1, S2}, code : {A1, Absent}, clc : {Absent}, name : {<<"n">>},
            status : {OK}, warranty_end : {Empty}, index_num : {0}] :
        d.serial = S1 <=> d.code = A1}
FaultUpdates ==
    [code : {A2}, clc : {Absent}, serial : {Absent}, name : {<<"m">>},
     status : {Absent}, warranty_end : {Absent}, id : {7}, index_num : {5}]
FaultBodies ==
    [serial : {S1}, type : {"fault"}, fault : {<<"f">>}, fault_date : {D2},
     calib_date : {Absent}, expire_date : {Absent}]
FaultUploads == {<<[filename |-> <<"f">>, size |-> 1]>>}
AddCalls == {"select_code", "select_serial", "insert"}
UpdateCalls == {"select", "select_code", "update"}
HistCalls == {"select_asset", "select_seq", "insert"}
DeleteCalls == {"select_files", "remove", "delete_files", "delete_asset"}

NextFault ==
    \/ AppListAssets
    \/ AppListAssetsFails
    \/ \E d \in FaultPayloads : AppAddAsset(d)
    \/ \E d \in FaultPayloads, c \in AddCalls : AppAddAssetFails(d, c)
    \/ \E b \in FaultUpdates : AppUpdateAsset(S1, b)
    \/ \E b \in FaultUpdates, c \in UpdateCalls : AppUpdateAssetFails(S1, b, c)
    \/ \E b \in FaultBodies : AppAddHistory(b)
    \/ \E b \in FaultBodies, c \in HistCalls : AppAddHistoryFails(b, c)
    \/ \E u \in FaultUploads : AppUploadFiles(S1, u)
    \/ AppDeleteAsset(S1)
    \/ \E c \in DeleteCalls : AppDeleteAssetFails(S1, c)

SpecFault == Init /\ [][NextFault]_vars

\* C22: no automatic retry.  A step of add-asset, update, delete, list or
\* add-history in which a store call fails is answered 500, and what the
\* failed call would have written is not written: no asset row is inserted,
\* changed or deleted, and no history row is inserted.
C22_NoRetry ==
    [][(\/ AppListAssetsFails
        \/ \E d \in FaultPayloads, c \in AddCalls : AppAddAssetFails(d, c)
        \/ \E b \in FaultUpdates, c \in UpdateCalls : AppUpdateAssetFails(S1, b, c)
        \/ \E b \in FaultBodies, c \in HistCalls : AppAddHistoryFails(b, c)
        \/ \E c \in DeleteCalls : AppDeleteAssetFails(S1, c)) =>
            /\ last'.status = 500
            /\ UNCHANGED <<assets, nextId, history>>]_vars

\* An add-asset request whose insert failed has been answered 500 for a
\* serial that no row carries, next to a row that was inserted before.
C22_Witness ==
    /\ prog = "app" /\ last.op = "add" /\ last.status = 500
    /\ Cardinality(assets) = 1
    /\ \A r \in assets : r.serial /= last.arg

\* C26: delete is all-or-nothing.  A delete-asset request that is answered
\* with an error leaves the asset rows, the file records and the blobs as
\* they were.
C26_DeleteAllOrNothing ==
    [][(prog = "app" /\ last'.op = "delete" /\ last'.status >= 400) =>
          UNCHANGED <<assets, files, blobs>>]_vars

----------------------------------------------------------------------------
(* Reads: the read requests of both services between requests that write.  *)
ReadSerials == {S1, S2}
ReadCodes == {A1, A2}
ReadMainPayloads == [code : ReadCodes, name : {<<"n">>}, serial : {S1}]
ReadAppPayloads ==
    [serial : ReadSerials, code : {Absent}, clc : {Absent}, name : {<<"n">>}, status : {OK},
     warranty_end : {Empty}, index_num : {0}]
ReadBodies ==
    [serial : ReadSerials, type : {"fault", "calib"}, fault : {<<"f">>}, fault_date : {D2},
     calib_date : {D1}, expire_date : {D3}]

NextRead ==
    \/ \E p \in ReadMainPayloads : MainAddAsset(p)
    \/ \E h \in HistMainFaults : MainAddHistory(A1, h)
    \/ MainDeleteAsset(A1)
    \/ MainGetAssets
    \/ \E c \in ReadCodes : MainGetAsset(c)
    \/ \E c \in ReadCodes : MainGetHistory(c)
    \/ \E d \in ReadAppPayloads : AppAddAsset(d)
    \/ \E b \in ReadBodies : AppAddHistory(b)
    \/ AppDeleteAsset(S1)
    \/ AppListAssets
    \/ \E s \in ReadSerials : AppGetAsset(s)
    \/ \E s \in ReadSerials : AppGetHistory(s)
    \/ \E s \in ReadSerials : LookupAssetForHist(s)

SpecRead == Init /\ [][NextRead]_vars

----------------------------------------------------------------------------
(* Attachments of app.py: history entries and uploaded files of assets     *)
(* that are updated, renamed and deleted; uploads of one or two files.     *)
AttSerials == {S1, S2}
AttPayloads ==
    [serial : {S1}, code : {Absent}, clc : {Absent}, name : {<<"n">>}, status : {OK},
     warranty_end : {Empty}, index_num : {0}]
AttUpdates ==
    [code : {Absent}, clc : {Absent}, serial : {S2, Absent}, name : {<<"m">>},
     status : {Absent}, warranty_end : {Absent}, id : {Absent}, index_num : {Absent}]
AttBodies ==
    [serial : AttSerials, type : {"fault"}, fault : {<<"f">>}, fault_date : {D2},
     calib_date : {Absent}, expire_date : {Absent}]
AttSmall == [filename |-> <<"a">>, size |-> 1]
AttLarge == [filename |-> <<"b">>, size |-> MAX_FILE_SIZE + 1]
AttUnnamed == [filename |-> Empty, size |-> 1]
AttUploads == {<<>>, <<AttSmall>>, <<AttSmall, AttLarge>>, <<AttLarge>>, <<AttUnnamed>>}

NextAttach ==
    \/ \E d \in AttPayloads : AppAddAsset(d)
    \/ \E s \in AttSerials, b \in AttUpdates : AppUpdateAsset(s, b)
    \/ \E s \in AttSerials : AppDeleteAsset(s)
    \/ \E b \in AttBodies : AppAddHistory(b)
    \/ \E s \in AttSerials : AppGetHistory(s)
    \/ \E s \in AttSerials, u \in AttUploads : AppUploadFiles(s, u)
    \/ \E s \in AttSerials : AppListFiles(s)

SpecAttach == Init /\ [][NextAttach]_vars

\* The file records api_list_asset_files returns for a serial.
FilesOf(rows, serial) == Filter(rows, LAMBDA f : f.serial = serial)

\* Every history entry and every file record names the serial of a live asset.
NoOrphans(rows, hist, recs) ==
    /\ \A i \in 1..Len(hist) : \E r \in rows : r.serial = hist[i].serial
    /\ \A i \in 1..Len(recs) : \E r \in rows : r.serial = recs[i].serial

\* C27: history stays attached across update.  After an update of app.py that
\* succeeds, the history entries and the file records returned for the asset
\* (the row with the same id, under the serial it has now) are the ones
\* returned before, and the update leaves no history entry or file record
\* naming a serial of no live asset where there was none.
C27_HistoryStaysAttached ==
    [][(prog = "app" /\ last'.op = "update" /\ last'.status = 200) =>
          /\ \A r \in assets, r2 \in assets' :
                r2.id = r.id =>
                   /\ AppHistoryOf(history', r2.serial) = AppHistoryOf(history, r.serial)
                   /\ FilesOf(files', r2.serial) = FilesOf(files, r.serial)
          /\ NoOrphans(assets, history, files) => NoOrphans(assets', history', files')]_vars

----------------------------------------------------------------------------
(* keepalive.py: the loop that pings the deployed service.  Time is the    *)
(* minute of the day in Asia/Ho_Chi_Minh; an iteration reads the time, and *)
(* the next one reads it after the sleep plus what the request took.       *)
MaxLag == 1                 \* minutes an iteration may take beyond its sleep
PingFrom == 8               \* if 8 <= hour
PingUntil == 17             \*    hour < 17
PingSleep == 5              \* time.sleep(300)
IdleSleep == 30             \* time.sleep(1800)
KeepStarts == {0, 7 * 60 + 31, 16 * 60 + 52}

\* now = datetime.now(tz) of this iteration
KeepNow(start, lag) ==
    IF keepalive.pc = "start" THEN start
    ELSE (keepalive.now + keepalive.wait + lag) % (24 * 60)

\* An iteration in which an exception of requests.get ends the script.
KeepAliveCheckStopping(start, lag, ok) ==
    /\ keepalive.pc \in {"start", "loop"}
    /\ LET now == KeepNow(start, lag)
           hour == now \div 60 IN
       keepalive' =
          IF PingFrom <= hour /\ hour < PingUntil
          THEN [pc |-> IF ok THEN "loop" ELSE "stopped", now |-> now, sent |-> TRUE,
                failed |-> ~ok, wait |-> PingSleep]
          ELSE [pc |-> "loop", now |-> now, sent |-> FALSE, failed |-> FALSE,
                wait |-> IdleSleep]
    /\ UNCHANGED <<prog, file, appStore, clock, inflight, last>>

\* One iteration of while True: read the hour, ping inside the window (ok:
\* requests.get returned; otherwise it raised and the except clause printed
\* the error), then sleep.
KeepAliveCheck(start, lag, ok) ==
    /\ keepalive.pc \in {"start", "loop"}
    /\ LET now == KeepNow(start, lag)
           hour == now \div 60 IN
       keepalive' =
          IF PingFrom <= hour /\ hour < PingUntil
          THEN [pc |-> "loop", now |-> now, sent |-> TRUE, failed |-> ~ok,
                wait |-> PingSleep]
          ELSE [pc |-> "loop", now |-> now, sent |-> FALSE, failed |-> FALSE,
                wait |-> IdleSleep]
    /\ UNCHANGED <<prog, file, appStore, clock, inflight, last>>

NextKeepAlive ==
    \E start \in KeepStarts, lag \in 0..MaxLag, ok \in BOOLEAN : KeepAliveCheck(start, lag, ok)

SpecKeepAlive == Init /\ [][NextKeepAlive]_vars

\* C29: keep-alive window.  An iteration of the loop has sent a ping exactly
\* when its Vietnam-time hour h satisfies 8 <= h < 17; it then waits 5
\* minutes, and otherwise sends nothing and waits 30 minutes; after every
\* iteration, one with a failed ping included, the loop is still running.
C29_KeepAliveWindow ==
    keepalive.pc /= "start" =>
        LET h == keepalive.now \div 60 IN
        /\ keepalive.sent <=> (8 <= h /\ h < 17)
        /\ keepalive.sent => keepalive.wait = 5
        /\ ~keepalive.sent => keepalive.wait = 30 /\ ~keepalive.failed
        /\ keepalive.pc = "loop"

\* A ping sent in the last hour of the window has failed.
C29_Witness ==
    /\ keepalive.pc = "loop" /\ keepalive.sent /\ keepalive.failed
    /\ keepalive.now \div 60 = 16

----------------------------------------------------------------------------
====
